---------------------------- MODULE Spec2Model ----------------------------
(***************************************************************************)
(* clDES: finite automata (DESystem) stored as sparse adjacency matrices,  *)
(* their reachability reductions (accessible part, coaccessible part,      *)
(* trim), and the monolithic supervisor synthesis (SuperProxy).            *)
(*                                                                         *)
(* A sparse matrix of EventsSet is a set of <<row, col, event>> triples    *)
(* (one triple per set bit of a stored coefficient); a sparse matrix of    *)
(* bool is a set of <<row, col>> pairs; a StatesVector (column-major bool  *)
(* matrix) is a sequence of columns, each the set of its lit rows.         *)
(***************************************************************************)
EXTENDS Integers, Sequences, FiniteSets, TLC

\* Template parameter NEvents of DESystem<NEvents, StorageIndex>.
NEvents == 2

\* Largest aStatesNumber handed to the DESystem constructor.
NStates == 3

\* Largest number of transition assignments sys(i, j) = e on one system.
MaxTrans == 2

\* Largest state counts of the plant and of the specification of a synthesis.
MaxPlantStates == 3

MaxSpecStates == 2

\* Largest number of transitions of the plant, and of the specification,
\* handed to a synthesis.
MaxOperandTrans == 2

\* Bounds of the systems handed to synchronize: states per system and
\* transitions per system.
MaxSyncStates == 2

MaxSyncTrans == 2

\* Bound of the operands of the synthesis checked for termination: states
\* per operand.
MaxFairStates == 2

\* Bound of the plant of the synthesis checked for the order of the search:
\* states of the plant.
MaxOrderStates == 3

Events == 0 .. (NEvents - 1)

StatesOf(n) == 0 .. (n - 1)

-----------------------------------------------------------------------------
(* Generic helpers over std::set / std::vector.                            *)

RECURSIVE SortedSeq(_)
\* Iteration order of a std::set<StorageIndex>: ascending.
SortedSeq(S) ==
    IF S = {} THEN << >>
    ELSE LET m == CHOOSE x \in S : \A y \in S : x <= y
         IN  << m >> \o SortedSeq(S \ {m})

RECURSIVE NonZeros(_)
\* y.nonZeros() of a StatesVector: stored coefficients over all columns.
NonZeros(x) ==
    IF x = << >> THEN 0
    ELSE Cardinality(Head(x)) + NonZeros(Tail(x))

\* Sparse product bit matrix * StatesVector over bool.
Product(bg, x) ==
    [c \in DOMAIN x |-> { p[1] : p \in { pp \in bg : pp[2] \in x[c] } }]

\* bit_graph_.transpose()
Transpose(bg) == { << p[2], p[1] >> : p \in bg }

\* setIdentity() on an n x n bit matrix.
Identity(n) == { << q, q >> : q \in StatesOf(n) }

\* Rows lit in any column of a StatesVector.
LitRows(y) == UNION { y[c] : c \in DOMAIN y }

\* graph_.coeff(aQfrom, aQto)
Label(g, i, j) == { t[3] : t \in { tt \in g : tt[1] = i /\ tt[2] = j } }

-----------------------------------------------------------------------------
(* DESystem                                                                *)

NullInvGraph == [allocated |-> FALSE, graph |-> {}]

\* DESystem(aStatesNumber, aInitState, aMarkedStates)
NewBitGraph(n) == Identity(n)

DESystemNew(n, q0, M) ==
    [ states_number_     |-> n,
      init_state_        |-> q0,
      marked_states_     |-> M,
      graph_             |-> {},
      bit_graph_         |-> NewBitGraph(n),
      events_            |-> {},
      states_events_     |-> [q \in StatesOf(n) |-> {}],
      inv_states_events_ |-> [q \in StatesOf(n) |-> {}],
      inv_graph_         |-> NullInvGraph ]

\* TransitionProxy assignment sys(i, j) = e.
SetTransitionOp(a, i, j, e) ==
    [ a EXCEPT !.graph_             = @ \cup { << i, j, e >> },
               !.bit_graph_         = @ \cup { << j, i >> },
               !.events_            = @ \cup { e },
               !.states_events_     = [@ EXCEPT ![i] = @ \cup { e }],
               !.inv_states_events_ = [@ EXCEPT ![j] = @ \cup { e }] ]

\* The search column of Bfs_ is addressed at init_state_: it has to be a row.
InContract(a) == a.init_state_ < a.states_number_

RECURSIVE BfsLoopNoAdvance(_, _, _, _, _, _)
\* BfsLoop without "x = y": every product is taken from the seed columns.
BfsLoopNoAdvance(m, x, y, n_accessed_states, i, n) ==
    IF i >= n THEN y
    ELSE LET yy == Product(m, x)
         IN  IF n_accessed_states = NonZeros(yy) THEN yy
             ELSE BfsLoopNoAdvance(m, x, yy, NonZeros(yy), i + 1, n)

RECURSIVE BfsLoopBreaksOnGrowth(_, _, _, _, _, _)
\* The loop leaving at the first product whose count differs from the
\* previous one.
BfsLoopBreaksOnGrowth(m, x, y, n_accessed_states, i, n) ==
    IF i >= n THEN y
    ELSE LET yy == Product(m, x)
         IN  IF n_accessed_states # NonZeros(yy) THEN yy
             ELSE BfsLoopBreaksOnGrowth(m, yy, yy, NonZeros(yy), i + 1, n)

RECURSIVE BfsLoop(_, _, _, _, _, _)
\* The for loop shared by BfsCalc_, CoaccessiblePart and TrimStates:
\*   y = m * x; if (n_accessed_states == y.nonZeros()) break; ... x = y;
BfsLoop(m, x, y, n_accessed_states, i, n) ==
    IF i >= n THEN y
    ELSE LET yy == Product(m, x)
         IN  IF n_accessed_states = NonZeros(yy) THEN yy
             ELSE BfsLoop(m, yy, yy, NonZeros(yy), i + 1, n)

\* BfsCalc_(aHostX, nullptr, ...): one accessed set per search column.
BfsCalc_(a, aHostX) ==
    BfsLoop(a.bit_graph_, aHostX, [c \in DOMAIN aHostX |-> {}], 0, 0,
            a.states_number_)

\* AccessiblePart(): Bfs_() from init_state_, first (only) column.
AccessiblePart(a) == BfsCalc_(a, << { a.init_state_ } >>)[1]

\* The seed matrix x of CoaccessiblePart: column pos lit at the pos-th marked
\* state.
MarkedColumns(a) ==
    LET ms == SortedSeq(a.marked_states_)
    IN  [pos \in DOMAIN ms |-> { ms[pos] }]

\* CoaccessiblePart searching bit_graph_ itself instead of its transpose.
CoaccessiblePartNoTranspose(a) ==
    LET x == MarkedColumns(a)
        y == BfsLoop(a.bit_graph_, x, [c \in DOMAIN x |-> {}], 0, 0,
                     a.states_number_)
    IN  LitRows(y)

CoaccessiblePart(a) ==
    LET invgraph == Transpose(a.bit_graph_)
        x == MarkedColumns(a)
        y == BfsLoop(invgraph, x, [c \in DOMAIN x |-> {}], 0, 0,
                     a.states_number_)
    IN  LitRows(y)

RECURSIVE TrimStatesLoop(_, _, _, _, _, _)
TrimStatesLoop(m, x, y, n_accessed_states, i, n) ==
    IF i >= n THEN y
    ELSE LET yy == Product(m, x)
         IN  IF n_accessed_states = NonZeros(yy) THEN yy
             ELSE TrimStatesLoop(m, yy, yy, NonZeros(yy), i + 1, n)

\* TrimStates without the membership test against the accessible part.
TrimStatesNoAccessible(a) ==
    LET invgraph == Transpose(a.bit_graph_)
        ms == SortedSeq(a.marked_states_)
        x == [pos \in DOMAIN ms |-> { ms[pos] }]
        y == TrimStatesLoop(invgraph, x, [c \in DOMAIN x |-> {}], 0, 0,
                            a.states_number_)
    IN  LitRows(y)

\* TrimStates(): rows of the backward search that are in the accessible part.
TrimStates(a) ==
    LET accpart == AccessiblePart(a)
        invgraph == Transpose(a.bit_graph_)
        ms == SortedSeq(a.marked_states_)
        xtriplet == { << ms[pos], pos >> : pos \in DOMAIN ms }
        x == [pos \in DOMAIN ms |-> { t[1] : t \in { tt \in xtriplet : tt[2] = pos } }]
        y == TrimStatesLoop(invgraph, x, [c \in DOMAIN x |-> {}], 0, 0,
                            a.states_number_)
    IN  { s \in LitRows(y) : s \in accpart }

RECURSIVE FillStatesMap(_, _, _)
\* statesmap[s] = d; ++d  over the trim states in ascending order.
FillStatesMap(statesmap, ts, d) ==
    IF ts = << >> THEN statesmap
    ELSE FillStatesMap([statesmap EXCEPT ![Head(ts)] = d], Tail(ts), d + 1)

\* TrimRow writing the triplets at the old row index s instead of row_id.
TrimRowOldIndex(b, s, row_id, statesmap, old_graph) ==
    LET kept == { t \in old_graph : t[1] = s /\ statesmap[t[2]] # -1 }
    IN  [ b EXCEPT !.triplet = @ \cup
                       { << s, statesmap[t[2]], t[3] >> : t \in kept },
                   !.bittriplet = @ \cup
                       { << statesmap[t[2]], s >> : t \in kept },
                   !.events_ = @ \cup { t[3] : t \in kept } ]

\* One pass of "for (StorageIndex s : trimstates)" in Trim: row s of
\* old_graph is copied to row row_id of the new system.
TrimRow(b, s, row_id, statesmap, old_graph) ==
    LET has_tables == DOMAIN b.states_events_ # {}
        se0 == IF has_tables
                 THEN [b.states_events_ EXCEPT ![row_id] = {}]
                 ELSE b.states_events_
        ise0 == IF has_tables
                  THEN [b.inv_states_events_ EXCEPT ![row_id] = {}]
                  ELSE b.inv_states_events_
        kept == { t \in old_graph : t[1] = s /\ statesmap[t[2]] # -1 }
    IN  [ triplet    |-> b.triplet \cup
                           { << row_id, statesmap[t[2]], t[3] >> : t \in kept },
          bittriplet |-> b.bittriplet \cup
                           { << statesmap[t[2]], row_id >> : t \in kept },
          events_    |-> b.events_ \cup { t[3] : t \in kept },
          states_events_ |->
              IF has_tables
                THEN [se0 EXCEPT ![row_id] = @ \cup { t[3] : t \in kept }]
                ELSE se0,
          inv_states_events_ |->
              IF has_tables
                THEN [col_id \in DOMAIN ise0 |->
                        ise0[col_id] \cup
                        { t[3] : t \in { tt \in kept : statesmap[tt[2]] = col_id } }]
                ELSE ise0 ]

RECURSIVE TrimRows(_, _, _, _, _)
TrimRows(b, ts, row_id, statesmap, old_graph) ==
    IF ts = << >> THEN b
    ELSE TrimRows(TrimRow(b, Head(ts), row_id, statesmap, old_graph),
                  Tail(ts), row_id + 1, statesmap, old_graph)

\* The body of Trim() once trimstates is known.
TrimWith(a, aTrimStates) ==
    IF Cardinality(aTrimStates) = a.states_number_ THEN a
    ELSE
      LET n == Cardinality(aTrimStates)
          ts == SortedSeq(aTrimStates)
          statesmap == FillStatesMap([s \in StatesOf(a.states_number_) |-> -1],
                                     ts, 0)
          old_graph == a.graph_
          erased(tab) == IF DOMAIN tab # {}
                           THEN [q \in StatesOf(n) |-> tab[q]]
                           ELSE tab
          b0 == [ triplet |-> {}, bittriplet |-> {}, events_ |-> {},
                  states_events_ |-> erased(a.states_events_),
                  inv_states_events_ |-> erased(a.inv_states_events_) ]
          b == TrimRows(b0, ts, 0, statesmap, old_graph)
          old_marked == a.marked_states_
      IN  [ a EXCEPT !.states_number_     = n,
                     !.graph_             = b.triplet,
                     !.bit_graph_         = b.bittriplet,
                     !.events_            = b.events_,
                     !.states_events_     = b.states_events_,
                     !.inv_states_events_ = b.inv_states_events_,
                     !.marked_states_     =
                         { statesmap[s] : s \in { m \in old_marked :
                                                    statesmap[m] # -1 } } ]

\* The trim states Trim() works with.  In contract they are TrimStates();
\* with init_state_ out of range Bfs_ writes outside its search column and
\* any set of states may come back.
TrimOutcomes(a) ==
    IF InContract(a) THEN { TrimStates(a) }
    ELSE SUBSET StatesOf(a.states_number_)

\* ContainsTrans(aQ, aEvent)
ContainsTrans(a, aQ, aEvent) == aEvent \in a.states_events_[aQ]

\* Trans answering the last column of the row that holds aEvent.
TransLastColumn(a, aQ, aEvent) ==
    IF ~ContainsTrans(a, aQ, aEvent) THEN -1
    ELSE LET cols == { t[2] : t \in { tt \in a.graph_ :
                                        tt[1] = aQ /\ tt[3] = aEvent } }
         IN  IF cols = {} THEN -1
             ELSE CHOOSE c \in cols : \A d \in cols : c >= d

\* Trans(aQ, aEvent): first column of row aQ whose label holds aEvent, or -1.
Trans(a, aQ, aEvent) ==
    IF ~ContainsTrans(a, aQ, aEvent) THEN -1
    ELSE LET cols == { t[2] : t \in { tt \in a.graph_ :
                                        tt[1] = aQ /\ tt[3] = aEvent } }
         IN  IF cols = {} THEN -1
             ELSE CHOOSE c \in cols : \A d \in cols : c <= d

\* ContainsInvTrans(aQ, aEvent)
ContainsInvTrans(a, aQ, aEvent) == aEvent \in a.inv_states_events_[aQ]

\* InvTrans(aQ, aEvent), with inv_graph_ allocated.
InvTrans(a, aQ, aEvent) ==
    IF ~ContainsInvTrans(a, aQ, aEvent) THEN {}
    ELSE { t[2] : t \in { tt \in a.inv_graph_.graph :
                            tt[1] = aQ /\ tt[3] = aEvent } }

\* The outcomes of InvTrans(aQ, aEvent) whether or not inv_graph_ is
\* allocated: the early return of the empty array when the summary of
\* inverse events of aQ lacks aEvent; else the row of *inv_graph_, which on
\* a null inv_graph_ is a null dereference whose outcome is any of a fault
\* and the return of any array of states.
InvTransOutcomes(a, aQ, aEvent) ==
    IF ~ContainsInvTrans(a, aQ, aEvent)
      THEN { [kind |-> "return", value |-> {}] }
    ELSE IF a.inv_graph_.allocated
      THEN { [kind |-> "return", value |-> InvTrans(a, aQ, aEvent)] }
    ELSE { [kind |-> "fault", value |-> {}] } \cup
         { [kind |-> "return", value |-> X] :
             X \in SUBSET StatesOf(a.states_number_) }

\* AllocateInvertedGraph(): inv_graph_ = graph_.transpose()
AllocateInvertedGraph(a) ==
    [ a EXCEPT !.inv_graph_ =
        [ allocated |-> TRUE,
          graph |-> { << t[2], t[1], t[3] >> : t \in a.graph_ } ] ]

\* ClearInvertedGraph() leaving inv_graph_ as it is.
ClearInvertedGraphKeeps(a) == a

\* ClearInvertedGraph(): inv_graph_ = nullptr
ClearInvertedGraph(a) == [ a EXCEPT !.inv_graph_ = NullInvGraph ]

-----------------------------------------------------------------------------
(* SyncSysProxy: the virtual synchronous product of two systems.  A product *)
(* state (qx, qy) is the integer qy * n_states_sys0_ + qx.                  *)

SyncSysProxyNew(aSys0, aSys1) ==
    [ n_states_sys0_ |-> aSys0.states_number_,
      states_number_ |-> aSys0.states_number_ * aSys1.states_number_,
      init_state_    |-> aSys1.init_state_ * aSys0.states_number_ +
                           aSys0.init_state_,
      events_        |-> aSys0.events_ \cup aSys1.events_,
      only_in_0_     |-> aSys0.events_ \ aSys1.events_,
      only_in_1_     |-> aSys1.events_ \ aSys0.events_ ]

\* virtualsys.trans answering -1 for every event that only the second
\* system has.
SyncTransSecondPrivateBlocked(vs, aSys0, aSys1, aQ, aEvent) ==
    LET qx == aQ % vs.n_states_sys0_
        qy == aQ \div vs.n_states_sys0_
        in_x == ContainsTrans(aSys0, qx, aEvent)
        in_y == ContainsTrans(aSys1, qy, aEvent)
    IN  IF aEvent \notin vs.events_ THEN -1
        ELSE IF aEvent \in vs.only_in_0_
          THEN IF in_x THEN qy * vs.n_states_sys0_ + Trans(aSys0, qx, aEvent)
                       ELSE -1
        ELSE IF aEvent \in vs.only_in_1_
          THEN -1
        ELSE IF in_x /\ in_y
          THEN Trans(aSys1, qy, aEvent) * vs.n_states_sys0_ +
                 Trans(aSys0, qx, aEvent)
        ELSE -1

\* virtualsys.trans(q, event)
SyncTrans(vs, aSys0, aSys1, aQ, aEvent) ==
    LET qx == aQ % vs.n_states_sys0_
        qy == aQ \div vs.n_states_sys0_
        in_x == ContainsTrans(aSys0, qx, aEvent)
        in_y == ContainsTrans(aSys1, qy, aEvent)
    IN  IF aEvent \notin vs.events_ THEN -1
        ELSE IF aEvent \in vs.only_in_0_
          THEN IF in_x THEN qy * vs.n_states_sys0_ + Trans(aSys0, qx, aEvent)
                       ELSE -1
        ELSE IF aEvent \in vs.only_in_1_
          THEN IF in_y THEN Trans(aSys1, qy, aEvent) * vs.n_states_sys0_ + qx
                       ELSE -1
        ELSE IF in_x /\ in_y
          THEN Trans(aSys1, qy, aEvent) * vs.n_states_sys0_ +
                 Trans(aSys0, qx, aEvent)
        ELSE -1

\* virtualsys.invtrans(q, event)
SyncInvTrans(vs, aSys0, aSys1, aQ, aEvent) ==
    LET qx == aQ % vs.n_states_sys0_
        qy == aQ \div vs.n_states_sys0_
        inv_0 == IF aEvent \in aSys0.events_
                   THEN InvTrans(aSys0, qx, aEvent) ELSE { qx }
        inv_1 == IF aEvent \in aSys1.events_
                   THEN InvTrans(aSys1, qy, aEvent) ELSE { qy }
    IN  IF aEvent \notin vs.events_ THEN {}
        ELSE { q1 * vs.n_states_sys0_ + q0 : q0 \in inv_0, q1 \in inv_1 }

RECURSIVE RemoveBadStatesLoop(_, _, _, _, _, _, _)
\* The loop of removeBadStates over its stack f_rm.
RemoveBadStatesLoop(vs, aSys0, aSys1, aC, aNonContrBit, aRmTable, f_rm) ==
    IF f_rm = {} THEN [ virtual_states_ |-> aC, rmtable |-> aRmTable ]
    ELSE LET x == CHOOSE s \in f_rm : \A t \in f_rm : s <= t
             finv == UNION { SyncInvTrans(vs, aSys0, aSys1, x, e) :
                               e \in aNonContrBit }
             fresh == finv \ aRmTable
         IN  RemoveBadStatesLoop(vs, aSys0, aSys1, aC \ fresh, aNonContrBit,
                                 aRmTable \cup fresh,
                                 (f_rm \ { x }) \cup fresh)

\* removeBadStates(virtualsys, virtual_states_, q, non_contr_bit, rmtable)
RemoveBadStates(vs, aSys0, aSys1, aC, aQ, aNonContrBit, aRmTable) ==
    RemoveBadStatesLoop(vs, aSys0, aSys1, aC, aNonContrBit,
                        aRmTable \cup { aQ }, { aQ })

-----------------------------------------------------------------------------
(* SuperProxy: the virtual supervisor of a plant and a specification.      *)

\* SuperProxy(aPlant, aSpec, aNonContr), up to the call of findRemovedStates_.
SuperProxyNew(aPlant, aSpec) ==
    LET in_both == aPlant.events_ \cap aSpec.events_
    IN  [ states_number_  |-> aPlant.states_number_ * aSpec.states_number_,
          init_state_     |-> aSpec.init_state_ * aPlant.states_number_ +
                                aPlant.init_state_,
          n_states_sys0_  |-> aPlant.states_number_,
          only_in_plant_  |-> (aPlant.events_ \cup in_both) \
                                (aPlant.events_ \cap in_both),
          only_in_spec_   |-> (aSpec.events_ \cup in_both) \
                                (aSpec.events_ \cap in_both),
          events_         |-> aPlant.events_ \cup aSpec.events_,
          marked_states_  |-> { q1 * aPlant.states_number_ + q0 :
                                  q0 \in aPlant.marked_states_,
                                  q1 \in aSpec.marked_states_ },
          virtual_states_ |-> {},
          triplet_        |-> {} ]

\* p_non_contr_bit of findRemovedStates_
PNonContrBit(aP, aNonContr) == { e \in aNonContr : e \in aP.events_ }

\* non_contr_bit of findRemovedStates_
NonContrBit(aP, vs, aNonContr) ==
    { e \in aNonContr : e \in aP.events_ /\ e \in vs.events_ }

\* The badstate test without the test of p_non_contr_bit: a disabled
\* controllable event of the plant makes the state bad too.
BadStateAnyEvent(vs, aP, aE, aNonContr, q) ==
    LET qx == q % vs.n_states_sys0_
    IN  \E event \in Events :
            /\ Trans(aP, qx, event) # -1
            /\ SyncTrans(vs, aP, aE, q, event) = -1

\* The badstate test asking the specification instead of the product: an
\* uncontrollable event of the plant alone makes the state bad.
BadStateAsksSpec(vs, aP, aE, aNonContr, q) ==
    LET qx == q % vs.n_states_sys0_
        qy == q \div vs.n_states_sys0_
    IN  \E event \in Events :
            /\ event \in PNonContrBit(aP, aNonContr)
            /\ Trans(aP, qx, event) # -1
            /\ Trans(aE, qy, event) = -1

\* The badstate test of findRemovedStates_ on the popped state q.
BadState(vs, aP, aE, aNonContr, q) ==
    LET qx == q % vs.n_states_sys0_
    IN  \E event \in Events :
            /\ event \in PNonContrBit(aP, aNonContr)
            /\ Trans(aP, qx, event) # -1
            /\ SyncTrans(vs, aP, aE, q, event) = -1

RECURSIVE PushSuccessorsLowEventOnly(_, _, _, _, _, _, _, _)
\* The event_it loop ending after the first event: only the successor under
\* event 0 is pushed.
PushSuccessorsLowEventOnly(vs, aP, aE, q, event, rm, vstates, stack) ==
    IF event >= 1 THEN stack
    ELSE LET fsqe == SyncTrans(vs, aP, aE, q, event)
             pushed == IF fsqe # -1 /\ fsqe \notin rm /\ fsqe \notin vstates
                         THEN Append(stack, fsqe)
                         ELSE stack
         IN  PushSuccessorsLowEventOnly(vs, aP, aE, q, event + 1, rm, vstates,
                                        pushed)

RECURSIVE PushSuccessors(_, _, _, _, _, _, _, _)
\* The event_it loop of findRemovedStates_: successors of q that are neither
\* removed nor kept are pushed on f, by ascending event.
PushSuccessors(vs, aP, aE, q, event, rm, vstates, stack) ==
    IF event >= NEvents THEN stack
    ELSE LET fsqe == SyncTrans(vs, aP, aE, q, event)
             pushed == IF fsqe # -1 /\ fsqe \notin rm /\ fsqe \notin vstates
                         THEN Append(stack, fsqe)
                         ELSE stack
         IN  PushSuccessors(vs, aP, aE, q, event + 1, rm, vstates, pushed)

\* containstrans_impl(aQ, aEvent)
containstrans_impl(px, aSys0, aSys1, aQ, aEvent) ==
    IF aQ \notin px.virtual_states_ \/ aEvent \notin px.events_ THEN FALSE
    ELSE LET qx == aQ % px.n_states_sys0_
             qy == aQ \div px.n_states_sys0_
             in_x == ContainsTrans(aSys0, qx, aEvent)
             in_y == ContainsTrans(aSys1, qy, aEvent)
         IN  \/ (in_x /\ in_y)
             \/ (in_x /\ aEvent \in px.only_in_plant_)
             \/ (in_y /\ aEvent \in px.only_in_spec_)

\* trans_impl that lets an event of the plant alone reset the specification
\* component (qx used where qy belongs).
trans_implPlantOnlyDropsSpec(px, aSys0, aSys1, aQ, aEvent) ==
    IF aQ \notin px.virtual_states_ \/ aEvent \notin px.events_ THEN -1
    ELSE LET qx == aQ % px.n_states_sys0_
             qy == aQ \div px.n_states_sys0_
             in_x == ContainsTrans(aSys0, qx, aEvent)
             in_y == ContainsTrans(aSys1, qy, aEvent)
         IN  IF ~( \/ (in_x /\ in_y)
                   \/ (in_x /\ aEvent \in px.only_in_plant_)
                   \/ (in_y /\ aEvent \in px.only_in_spec_) )
               THEN -1
             ELSE IF in_x /\ in_y
               THEN Trans(aSys1, qy, aEvent) * px.n_states_sys0_ +
                      Trans(aSys0, qx, aEvent)
             ELSE IF in_x
               THEN Trans(aSys0, qx, aEvent)
             ELSE Trans(aSys1, qy, aEvent) * px.n_states_sys0_ + qx

\* trans_impl(aQ, aEvent)
trans_impl(px, aSys0, aSys1, aQ, aEvent) ==
    IF aQ \notin px.virtual_states_ \/ aEvent \notin px.events_ THEN -1
    ELSE LET qx == aQ % px.n_states_sys0_
             qy == aQ \div px.n_states_sys0_
             in_x == ContainsTrans(aSys0, qx, aEvent)
             in_y == ContainsTrans(aSys1, qy, aEvent)
         IN  IF ~( \/ (in_x /\ in_y)
                   \/ (in_x /\ aEvent \in px.only_in_plant_)
                   \/ (in_y /\ aEvent \in px.only_in_spec_) )
               THEN -1
             ELSE IF in_x /\ in_y
               THEN Trans(aSys1, qy, aEvent) * px.n_states_sys0_ +
                      Trans(aSys0, qx, aEvent)
             ELSE IF in_x
               THEN qy * px.n_states_sys0_ + Trans(aSys0, qx, aEvent)
             ELSE Trans(aSys1, qy, aEvent) * px.n_states_sys0_ + qx

\* containsinvtrans_impl(aQ, aEvent)
containsinvtrans_impl(px, aSys0, aSys1, aQ, aEvent) ==
    IF aQ \notin px.virtual_states_ \/ aEvent \notin px.events_ THEN FALSE
    ELSE LET qx == aQ % px.n_states_sys0_
             qy == aQ \div px.n_states_sys0_
             in_x == ContainsInvTrans(aSys0, qx, aEvent)
             in_y == ContainsInvTrans(aSys1, qy, aEvent)
         IN  \/ (in_x /\ in_y)
             \/ (in_x /\ aEvent \in px.only_in_plant_)
             \/ (in_y /\ aEvent \in px.only_in_spec_)

\* invtrans_impl(aQ, aEvent), with the inverted graphs of both operands
\* allocated: the returned array as the set of its elements.
invtrans_impl(px, aSys0, aSys1, aQ, aEvent) ==
    IF aQ \notin px.virtual_states_ \/ aEvent \notin px.events_ THEN {}
    ELSE LET qx == aQ % px.n_states_sys0_
             qy == aQ \div px.n_states_sys0_
             in_x == ContainsInvTrans(aSys0, qx, aEvent)
             in_y == ContainsInvTrans(aSys1, qy, aEvent)
         IN  IF ~( \/ (in_x /\ in_y)
                   \/ (in_x /\ aEvent \in px.only_in_plant_)
                   \/ (in_y /\ aEvent \in px.only_in_spec_) )
               THEN {}
             ELSE IF in_x /\ in_y
               THEN { q1 * px.n_states_sys0_ + q0 :
                        q0 \in InvTrans(aSys0, qx, aEvent),
                        q1 \in InvTrans(aSys1, qy, aEvent) }
             ELSE IF in_x
               THEN { qy * px.n_states_sys0_ + q :
                        q \in InvTrans(aSys0, qx, aEvent) }
             ELSE { q * px.n_states_sys0_ + qx :
                      q \in InvTrans(aSys1, qy, aEvent) }

RECURSIVE trimPush(_, _, _, _)
\* The inner for loop of trim(): the predecessors in cand (in ascending
\* order) that are in virtual_states_ and not yet in trimmed_virtual_states
\* are pushed on f.
trimPush(px, cand, tvs, stack) ==
    IF cand = << >> THEN stack
    ELSE LET fsqe == Head(cand)
             pushed == IF fsqe \in px.virtual_states_ /\ fsqe \notin tvs
                         THEN Append(stack, fsqe)
                         ELSE stack
         IN  trimPush(px, Tail(cand), tvs, pushed)

RECURSIVE trimEvents(_, _, _, _, _, _, _)
\* The loop of trim() over the events 0 .. NEvents - 1 for the popped state q.
trimEvents(px, aSys0, aSys1, q, event, tvs, stack) ==
    IF event >= NEvents THEN stack
    ELSE trimEvents(px, aSys0, aSys1, q, event + 1, tvs,
                    trimPush(px,
                             SortedSeq(invtrans_impl(px, aSys0, aSys1, q, event)),
                             tvs, stack))

RECURSIVE trimSearch(_, _, _, _, _)
\* while (!f.empty()) of trim(): the popped state is inserted into
\* trimmed_virtual_states, then its predecessors are pushed.
trimSearch(px, aSys0, aSys1, stack, tvs) ==
    IF stack = << >> THEN tvs
    ELSE LET q == stack[Len(stack)]
             popped == SubSeq(stack, 1, Len(stack) - 1)
             ins == tvs \cup { q }
         IN  trimSearch(px, aSys0, aSys1,
                        trimEvents(px, aSys0, aSys1, q, 0, ins, popped), ins)

RECURSIVE trimMarked(_, _, _, _, _)
\* for (auto mstate : this->marked_states_) of trim(): one search per
\* marked state, in ascending order.
trimMarked(px, aSys0, aSys1, marked, tvs) ==
    IF marked = << >> THEN tvs
    ELSE trimMarked(px, aSys0, aSys1, Tail(marked),
                    trimSearch(px, aSys0, aSys1, << Head(marked) >>, tvs))

\* trim() of the supervisor proxy, with the inverted graphs of both operands
\* allocated.
trim(px, aSys0, aSys1) ==
    LET trimmed_virtual_states ==
            trimMarked(px, aSys0, aSys1, SortedSeq(px.marked_states_), {})
    IN  [ px EXCEPT !.virtual_states_ = trimmed_virtual_states,
                    !.states_number_  = Cardinality(trimmed_virtual_states) ]

\* synchronizeStage2(*this): the triplets of the kept transitions under the
\* ascending renumbering of virtual_states_, with the marked states and the
\* initial state renumbered alike.
SynchronizeStage2(px, aSys0, aSys1) ==
    LET V == px.virtual_states_
        rank(q) == Cardinality({ v \in V : v < q })
    IN  [ px EXCEPT
            !.triplet_ =
                UNION { { << rank(q),
                              rank(trans_impl(px, aSys0, aSys1, q, e)), e >> :
                            e \in { ev \in Events :
                                      trans_impl(px, aSys0, aSys1, q, ev) \in V } } :
                        q \in V },
            !.marked_states_ = { rank(q) : q \in V \cap px.marked_states_ },
            !.init_state_ = IF px.init_state_ \in V
                              THEN rank(px.init_state_)
                              ELSE px.init_state_ ]

\* operator DESystem() that clears triplet_ before the graph is filled.
ToDESystemEmptyGraph(px, aSys0, aSys1) ==
    LET st2 == SynchronizeStage2(px, aSys0, aSys1)
    IN  [ states_number_     |-> st2.states_number_,
          init_state_        |-> st2.init_state_,
          marked_states_     |-> st2.marked_states_,
          graph_             |-> {},
          bit_graph_         |-> {},
          events_            |-> st2.events_,
          states_events_     |-> << >>,
          inv_states_events_ |-> << >>,
          inv_graph_         |-> NullInvGraph ]

\* operator DESystem(): the concrete system moved out of the proxy.
ToDESystem(px, aSys0, aSys1) ==
    LET st2 == SynchronizeStage2(px, aSys0, aSys1)
    IN  [ states_number_     |-> st2.states_number_,
          init_state_        |-> st2.init_state_,
          marked_states_     |-> st2.marked_states_,
          graph_             |-> st2.triplet_,
          bit_graph_         |-> {},
          events_            |-> st2.events_,
          states_events_     |-> << >>,
          inv_states_events_ |-> << >>,
          inv_graph_         |-> NullInvGraph ]

-----------------------------------------------------------------------------
(* synchronize(P, Q): the reachable part of the virtual product, moved     *)
(* into a concrete system.                                                 *)

RECURSIVE ForwardTraversal(_, _, _, _)
\* The product states the forward traversal reaches from the set X.
ForwardTraversal(vs, aSys0, aSys1, X) ==
    LET nxt == X \cup ({ SyncTrans(vs, aSys0, aSys1, q, e) :
                           q \in X, e \in Events } \ { -1 })
    IN  IF nxt = X THEN X ELSE ForwardTraversal(vs, aSys0, aSys1, nxt)

\* The virtual states synchronize(aSys0, aSys1) keeps: all the states
\* reachable from the initial state of the product.
ReachableProduct(aSys0, aSys1) ==
    LET vs == SyncSysProxyNew(aSys0, aSys1)
    IN  ForwardTraversal(vs, aSys0, aSys1, { vs.init_state_ })

\* synchronize keeping as alphabet only the events of the emitted
\* transitions.
SynchronizeUsedAlphabet(aSys0, aSys1) ==
    LET vs == SyncSysProxyNew(aSys0, aSys1)
        V == ReachableProduct(aSys0, aSys1)
        n == Cardinality(V)
        rank(q) == Cardinality({ v \in V : v < q })
        triplet == UNION { { << rank(q),
                                rank(SyncTrans(vs, aSys0, aSys1, q, e)), e >> :
                               e \in { ev \in Events :
                                         SyncTrans(vs, aSys0, aSys1, q, ev) \in V } } :
                           q \in V }
    IN  [ states_number_     |-> n,
          init_state_        |-> rank(vs.init_state_),
          marked_states_     |->
              { rank(q) : q \in { v \in V :
                   /\ (v % vs.n_states_sys0_) \in aSys0.marked_states_
                   /\ (v \div vs.n_states_sys0_) \in aSys1.marked_states_ } },
          graph_             |-> triplet,
          bit_graph_         |-> { << t[2], t[1] >> : t \in triplet } \cup
                                   Identity(n),
          events_            |-> { t[3] : t \in triplet },
          states_events_     |->
              [q \in StatesOf(n) |-> { t[3] : t \in { tt \in triplet : tt[1] = q } }],
          inv_states_events_ |->
              [q \in StatesOf(n) |-> { t[3] : t \in { tt \in triplet : tt[2] = q } }],
          inv_graph_         |-> NullInvGraph ]

\* synchronize(aSys0, aSys1): the kept states renumbered in ascending order,
\* the graph, the boolean matrix and the summaries built from the emitted
\* triplets, the alphabet of the product.
Synchronize(aSys0, aSys1) ==
    LET vs == SyncSysProxyNew(aSys0, aSys1)
        V == ReachableProduct(aSys0, aSys1)
        n == Cardinality(V)
        rank(q) == Cardinality({ v \in V : v < q })
        triplet == UNION { { << rank(q),
                                rank(SyncTrans(vs, aSys0, aSys1, q, e)), e >> :
                               e \in { ev \in Events :
                                         SyncTrans(vs, aSys0, aSys1, q, ev) \in V } } :
                           q \in V }
    IN  [ states_number_     |-> n,
          init_state_        |-> rank(vs.init_state_),
          marked_states_     |->
              { rank(q) : q \in { v \in V :
                   /\ (v % vs.n_states_sys0_) \in aSys0.marked_states_
                   /\ (v \div vs.n_states_sys0_) \in aSys1.marked_states_ } },
          graph_             |-> triplet,
          bit_graph_         |-> { << t[2], t[1] >> : t \in triplet } \cup
                                   Identity(n),
          events_            |-> vs.events_,
          states_events_     |->
              [q \in StatesOf(n) |-> { t[3] : t \in { tt \in triplet : tt[1] = q } }],
          inv_states_events_ |->
              [q \in StatesOf(n) |-> { t[3] : t \in { tt \in triplet : tt[2] = q } }],
          inv_graph_         |-> NullInvGraph ]

-----------------------------------------------------------------------------
(* State.  sys is one DESystem under construction, mutation and reduction;  *)
(* sys0_ and sys1_ are the plant and the specification handed to the        *)
(* supervisor synthesis, proxy the SuperProxy built from them.              *)

VARIABLES sys, old_sys, trimstates, lastOp, trimmed, nset,
          sys0_, sys1_, aNonContr, proxy, rmtable, f, pc, out_sys

sysvars == << sys, old_sys, trimstates, lastOp, trimmed, nset >>

supvars == << sys0_, sys1_, aNonContr, proxy, rmtable, f, pc, out_sys >>

vars == << sys, old_sys, trimstates, lastOp, trimmed, nset,
           sys0_, sys1_, aNonContr, proxy, rmtable, f, pc, out_sys >>

NoSys == DESystemNew(0, 0, {})

NoProxy == SuperProxyNew(NoSys, NoSys)

\* No synthesis in progress.
SupIdle ==
    /\ sys0_ = NoSys
    /\ sys1_ = NoSys
    /\ aNonContr = {}
    /\ proxy = NoProxy
    /\ rmtable = {}
    /\ f = << >>
    /\ pc = "idle"
    /\ out_sys = NoSys

\* No single system under test.
SysIdle ==
    /\ sys = NoSys
    /\ old_sys = NoSys
    /\ trimstates = {}
    /\ lastOp = "idle"
    /\ trimmed = FALSE
    /\ nset = 0

-----------------------------------------------------------------------------
(* One DESystem under construction, mutation and reduction.                *)

Init ==
    /\ \E n \in 1 .. NStates :
         \E q0 \in StatesOf(n) :
           \E M \in SUBSET StatesOf(n) :
             sys = DESystemNew(n, q0, M)
    /\ old_sys = NoSys
    /\ trimstates = {}
    /\ lastOp = "new"
    /\ trimmed = FALSE
    /\ nset = 0
    /\ SupIdle

\* sys(i, j) = e
SetTransition ==
    /\ lastOp # "abort"
    /\ nset < MaxTrans
    /\ \E i \in StatesOf(sys.states_number_) :
         \E j \in StatesOf(sys.states_number_) :
           \E e \in Events :
             sys' = SetTransitionOp(sys, i, j, e)
    /\ old_sys' = NoSys
    /\ trimstates' = {}
    /\ lastOp' = "set"
    /\ nset' = nset + 1
    /\ UNCHANGED trimmed
    /\ UNCHANGED supvars

\* sys.trim()
Trim ==
    /\ lastOp # "abort"
    /\ \E T \in TrimOutcomes(sys) :
         /\ sys' = TrimWith(sys, T)
         /\ trimstates' = T
    /\ old_sys' = sys
    /\ lastOp' = "trim"
    /\ trimmed' = TRUE
    /\ UNCHANGED nset
    /\ UNCHANGED supvars

\* sys.trim() with init_state_ out of range, in a build that checks indices:
\* the assertion of coeffRef stops the program.
TrimAbort ==
    /\ lastOp # "abort"
    /\ ~InContract(sys)
    /\ lastOp' = "abort"
    /\ UNCHANGED << sys, old_sys, trimstates, trimmed, nset >>
    /\ UNCHANGED supvars

Next ==
    \/ SetTransition
    \/ Trim
    \/ TrimAbort

Spec == Init /\ [][Next]_vars

-----------------------------------------------------------------------------
(* Supervisor synthesis supC(plant, spec, non_contr) on two systems built   *)
(* by the constructor, transition assignments and trim().                   *)

SupInit ==
    /\ \E n \in 1 .. MaxPlantStates :
         sys0_ = DESystemNew(n, 0, StatesOf(n))
    /\ \E n \in 1 .. MaxSpecStates :
         \E q0 \in StatesOf(n) :
           \E M \in SUBSET StatesOf(n) :
             sys1_ = DESystemNew(n, q0, M)
    /\ aNonContr = {}
    /\ proxy = NoProxy
    /\ rmtable = {}
    /\ f = << >>
    /\ pc = "build"
    /\ out_sys = NoSys
    /\ SysIdle

\* plant(i, j) = e
SetTransitionPlant ==
    /\ pc = "build"
    /\ Cardinality(sys0_.graph_) < MaxOperandTrans
    /\ \E i \in StatesOf(sys0_.states_number_) :
         \E j \in StatesOf(sys0_.states_number_) :
           \E e \in Events :
             sys0_' = SetTransitionOp(sys0_, i, j, e)
    /\ UNCHANGED << sys1_, aNonContr, proxy, rmtable, f, pc, out_sys >>
    /\ UNCHANGED sysvars

\* spec(i, j) = e
SetTransitionSpec ==
    /\ pc = "build"
    /\ Cardinality(sys1_.graph_) < MaxOperandTrans
    /\ \E i \in StatesOf(sys1_.states_number_) :
         \E j \in StatesOf(sys1_.states_number_) :
           \E e \in Events :
             sys1_' = SetTransitionOp(sys1_, i, j, e)
    /\ UNCHANGED << sys0_, aNonContr, proxy, rmtable, f, pc, out_sys >>
    /\ UNCHANGED sysvars

\* plant.trim()
TrimPlant ==
    /\ pc = "build"
    /\ InContract(sys0_)
    /\ sys0_' = TrimWith(sys0_, TrimStates(sys0_))
    /\ UNCHANGED << sys1_, aNonContr, proxy, rmtable, f, pc, out_sys >>
    /\ UNCHANGED sysvars

\* spec.trim()
TrimSpec ==
    /\ pc = "build"
    /\ InContract(sys1_)
    /\ sys1_' = TrimWith(sys1_, TrimStates(sys1_))
    /\ UNCHANGED << sys0_, aNonContr, proxy, rmtable, f, pc, out_sys >>
    /\ UNCHANGED sysvars

\* The product the synthesis searches: SyncSysProxy virtualsys{ aP, aE }.
virtualsys == SyncSysProxyNew(sys0_, sys1_)

\* supC(plant, spec, non_contr): the SuperProxy constructor and the head of
\* findRemovedStates_, up to the allocation of the inverted graphs.
Synthesize ==
    /\ pc = "build"
    /\ InContract(sys0_)
    /\ InContract(sys1_)
    /\ \E U \in SUBSET Events : aNonContr' = U
    /\ proxy' = SuperProxyNew(sys0_, sys1_)
    /\ rmtable' = {}
    /\ f' = << SyncSysProxyNew(sys0_, sys1_).init_state_ >>
    /\ sys0_' = AllocateInvertedGraph(sys0_)
    /\ sys1_' = AllocateInvertedGraph(sys1_)
    /\ pc' = "phase1"
    /\ UNCHANGED out_sys
    /\ UNCHANGED sysvars

\* One pass of the loop that pushes the successors of a state that is not
\* bad without inserting the state into virtual_states_.
Phase1StepKeepsNothing ==
    /\ pc = "phase1"
    /\ f # << >>
    /\ LET q == f[Len(f)]
           popped == SubSeq(f, 1, Len(f) - 1)
       IN  IF q \notin rmtable /\ q \notin proxy.virtual_states_
             THEN IF BadState(virtualsys, sys0_, sys1_, aNonContr, q)
                    THEN LET r == RemoveBadStates(
                                    virtualsys, sys0_, sys1_,
                                    proxy.virtual_states_, q,
                                    NonContrBit(sys0_, virtualsys, aNonContr),
                                    rmtable)
                         IN  /\ proxy' = [proxy EXCEPT !.virtual_states_ =
                                                         r.virtual_states_]
                             /\ rmtable' = r.rmtable
                             /\ f' = popped
                    ELSE /\ proxy' = proxy
                         /\ rmtable' = rmtable
                         /\ f' = PushSuccessors(
                                   virtualsys, sys0_, sys1_, q, 0, rmtable,
                                   proxy.virtual_states_, popped)
             ELSE /\ f' = popped
                  /\ UNCHANGED << proxy, rmtable >>
    /\ UNCHANGED << sys0_, sys1_, aNonContr, pc, out_sys >>
    /\ UNCHANGED sysvars

\* One pass of while (!f.empty()) in findRemovedStates_.
Phase1Step ==
    /\ pc = "phase1"
    /\ f # << >>
    /\ LET q == f[Len(f)]
           popped == SubSeq(f, 1, Len(f) - 1)
       IN  IF q \notin rmtable /\ q \notin proxy.virtual_states_
             THEN IF BadState(virtualsys, sys0_, sys1_, aNonContr, q)
                    THEN LET r == RemoveBadStates(
                                    virtualsys, sys0_, sys1_,
                                    proxy.virtual_states_, q,
                                    NonContrBit(sys0_, virtualsys, aNonContr),
                                    rmtable)
                         IN  /\ proxy' = [proxy EXCEPT !.virtual_states_ =
                                                         r.virtual_states_]
                             /\ rmtable' = r.rmtable
                             /\ f' = popped
                    ELSE /\ proxy' = [proxy EXCEPT !.virtual_states_ =
                                                     @ \cup { q }]
                         /\ rmtable' = rmtable
                         /\ f' = PushSuccessors(
                                   virtualsys, sys0_, sys1_, q, 0, rmtable,
                                   proxy.virtual_states_ \cup { q }, popped)
             ELSE /\ f' = popped
                  /\ UNCHANGED << proxy, rmtable >>
    /\ UNCHANGED << sys0_, sys1_, aNonContr, pc, out_sys >>
    /\ UNCHANGED sysvars

\* The tail of findRemovedStates_, once f is empty.
Phase1End ==
    /\ pc = "phase1"
    /\ f = << >>
    /\ rmtable' = {}
    /\ proxy' = [proxy EXCEPT !.states_number_ =
                                Cardinality(proxy.virtual_states_)]
    /\ sys0_' = ClearInvertedGraph(sys0_)
    /\ sys1_' = ClearInvertedGraph(sys1_)
    /\ pc' = "synth"
    /\ UNCHANGED << aNonContr, f, out_sys >>
    /\ UNCHANGED sysvars

\* DESystem supervisor = proxy: operator DESystem().
Convert ==
    /\ pc = "synth"
    /\ out_sys' = ToDESystem(proxy, sys0_, sys1_)
    /\ pc' = "converted"
    /\ UNCHANGED << sys0_, sys1_, aNonContr, proxy, rmtable, f >>
    /\ UNCHANGED sysvars

SupNext ==
    \/ SetTransitionPlant
    \/ SetTransitionSpec
    \/ TrimPlant
    \/ TrimSpec
    \/ Synthesize
    \/ Phase1Step
    \/ Phase1End
    \/ Convert

SpecSup == SupInit /\ [][SupNext]_vars

-----------------------------------------------------------------------------
(* Reference definitions for the properties of one DESystem.               *)

RECURSIVE ForwardClosure(_, _)
\* Least set containing X and closed under outgoing transitions of graph g.
ForwardClosure(g, X) ==
    LET nxt == X \cup { t[2] : t \in { tt \in g : tt[1] \in X } }
    IN  IF nxt = X THEN X ELSE ForwardClosure(g, nxt)

RECURSIVE BackwardClosure(_, _)
\* Least set containing X and closed under incoming transitions of graph g.
BackwardClosure(g, X) ==
    LET nxt == X \cup { t[1] : t \in { tt \in g : tt[2] \in X } }
    IN  IF nxt = X THEN X ELSE BackwardClosure(g, nxt)

\* sigma: the ascending-order renumbering of T onto [0, |T|).
Sigma(T, s) == Cardinality({ t \in T : t < s })

\* Events on the out-edges / in-edges of a state, and on any edge.
OutEvents(g, i) == { t[3] : t \in { tt \in g : tt[1] = i } }

InEvents(g, j) == { t[3] : t \in { tt \in g : tt[2] = j } }

UsedEvents(g) == { t[3] : t \in g }

Running == lastOp # "abort"

\* C2: on a system built by the constructor and transition assignments only,
\* AccessiblePart() is the least set that contains init_state_ and is closed
\* under outgoing transitions.
C2_AccessibleIsForwardClosure ==
    (Running /\ ~trimmed) =>
        AccessiblePart(sys) = ForwardClosure(sys.graph_, { sys.init_state_ })

\* C2 witness: three states, all accessible, one of them only through a
\* path of two transitions (the search needs a second product).
C2_Witness ==
    /\ Running /\ ~trimmed
    /\ sys.states_number_ = 3
    /\ AccessiblePart(sys) = {0, 1, 2}
    /\ \E q \in {0, 1, 2} : Label(sys.graph_, sys.init_state_, q) = {}
                            /\ q # sys.init_state_

\* C3: on a system built by the constructor and transition assignments only,
\* CoaccessiblePart() is the least set that contains the marked states and is
\* closed under predecessors; with no marked state it is empty.
C3_CoaccessibleIsBackwardClosure ==
    (Running /\ ~trimmed) =>
        /\ CoaccessiblePart(sys) = BackwardClosure(sys.graph_, sys.marked_states_)
        /\ (sys.marked_states_ = {} => CoaccessiblePart(sys) = {})

\* C3 witness: a state that is not marked reaches a marked state through two
\* transitions, and some state is not coaccessible.
C3_Witness ==
    /\ Running /\ ~trimmed
    /\ Cardinality(sys.marked_states_) = 1
    /\ Cardinality(CoaccessiblePart(sys)) = 3
    /\ \E q \in CoaccessiblePart(sys) :
         \A m \in sys.marked_states_ : q # m /\ Label(sys.graph_, q, m) = {}

\* C4: TrimStates() is the intersection of AccessiblePart() and
\* CoaccessiblePart() of the same system.
C4_TrimStatesIsIntersection ==
    (Running /\ InContract(sys)) =>
        TrimStates(sys) = AccessiblePart(sys) \cap CoaccessiblePart(sys)

\* C4 witness: the accessible part and the coaccessible part are different,
\* neither contains the other, and the trim states are not empty.
C4_Witness ==
    /\ Running /\ InContract(sys)
    /\ TrimStates(sys) # {}
    /\ AccessiblePart(sys) \ CoaccessiblePart(sys) # {}
    /\ CoaccessiblePart(sys) \ AccessiblePart(sys) # {}

\* C5: Trim() with T = trimstates smaller than the state set leaves |T| states,
\* the old labels between trim states under the ascending renumbering, no
\* other edge, and the renumbered marked trim states; with |T| = S it changes
\* nothing.
C5_TrimRebuildsGraph ==
    lastOp = "trim" =>
        LET T == trimstates
            A == old_sys
        IN  /\ InContract(A) => T = TrimStates(A)
            /\ IF Cardinality(T) < A.states_number_
                 THEN /\ sys.states_number_ = Cardinality(T)
                      /\ \A i \in T : \A j \in T :
                           Label(sys.graph_, Sigma(T, i), Sigma(T, j)) =
                             Label(A.graph_, i, j)
                      /\ \A t \in sys.graph_ :
                           /\ t[1] \in StatesOf(Cardinality(T))
                           /\ t[2] \in StatesOf(Cardinality(T))
                      /\ sys.marked_states_ =
                           { Sigma(T, m) : m \in A.marked_states_ \cap T }
                 ELSE sys = A

\* C5 witness: a trim that removed a state, renumbered another one and kept
\* an edge and a marked state.
C5_Witness ==
    /\ lastOp = "trim"
    /\ InContract(old_sys)
    /\ Cardinality(trimstates) < old_sys.states_number_
    /\ \E s \in trimstates : Sigma(trimstates, s) # s
    /\ \E t \in sys.graph_ : t[1] # t[2]
    /\ sys.marked_states_ # {}

\* C6: after trim() of a system whose initial state is a trim state, a second
\* trim() changes nothing: every state is a trim state and the system is the
\* same after the call.
C6_TrimIdempotent ==
    (lastOp = "trim" /\ InContract(old_sys)
       /\ old_sys.init_state_ \in trimstates) =>
        /\ InContract(sys)
        /\ TrimStates(sys) = StatesOf(sys.states_number_)
        /\ TrimWith(sys, TrimStates(sys)) = sys

\* C7: after trim() with the initial state among the trim states, init_state_
\* is the new index of the old initial state, hence below states_number_.
C7_InitStateRenumbered ==
    (lastOp = "trim" /\ InContract(old_sys)
       /\ old_sys.init_state_ \in trimstates) =>
        /\ sys.init_state_ = Sigma(trimstates, old_sys.init_state_)
        /\ sys.init_state_ < sys.states_number_

\* C8: states_events_[i] is the union of the labels on the out-edges of i and
\* inv_states_events_[j] the union of the labels on the in-edges of j, after
\* every sequence of transition assignments and trims.
C8_SummariesMatchGraph ==
    Running =>
        \A q \in StatesOf(sys.states_number_) :
            /\ sys.states_events_[q] = OutEvents(sys.graph_, q)
            /\ sys.inv_states_events_[q] = InEvents(sys.graph_, q)

\* C9: bit_graph_ is the transposed adjacency plus the identity, so the
\* searches are the exact closures, after every sequence of construction,
\* transition assignments and trims.
C9_BitGraphIsTransposePlusIdentity ==
    Running =>
        /\ sys.bit_graph_ =
             { << t[2], t[1] >> : t \in sys.graph_ } \cup
             Identity(sys.states_number_)
        /\ InContract(sys) =>
             AccessiblePart(sys) =
               ForwardClosure(sys.graph_, { sys.init_state_ })
        /\ CoaccessiblePart(sys) =
             BackwardClosure(sys.graph_, sys.marked_states_)

-----------------------------------------------------------------------------
(* The synthesis on operands of at most MaxFairStates states, the loop of  *)
(* findRemovedStates_ running to completion: a pass that can be taken is   *)
(* eventually taken.                                                       *)

FairInit ==
    /\ \E n \in 1 .. MaxFairStates :
         sys0_ = DESystemNew(n, 0, StatesOf(n))
    /\ \E n \in 1 .. MaxFairStates :
         sys1_ = DESystemNew(n, 0, StatesOf(n))
    /\ aNonContr = {}
    /\ proxy = NoProxy
    /\ rmtable = {}
    /\ f = << >>
    /\ pc = "build"
    /\ out_sys = NoSys
    /\ SysIdle

SpecSupFair == FairInit /\ [][SupNext]_vars /\ WF_vars(Phase1Step)

-----------------------------------------------------------------------------
(* The synthesis on a plant of MaxOrderStates states that already has some *)
(* of the transitions of OrderPlantEdges, and a spec of MaxSpecStates      *)
(* states.                                                                 *)

\* The transitions the plant may have been given before the first step: a
\* self-loop and an exit at state 0, a return and an exit at state 1, and
\* the two transitions of state 2 back to the others.
OrderPlantEdges ==
    { << 0, 0, 0 >>, << 0, 1, 1 >>, << 1, 0, 0 >>, << 1, MaxOrderStates - 1, 1 >>,
      << MaxOrderStates - 1, 0, 0 >>, << MaxOrderStates - 1, 1, 1 >> }

RECURSIVE WithTransitions(_, _)
\* a after the assignments a(i, j) = e for the transitions << i, j, e >> of
\* edges.
WithTransitions(a, edges) ==
    IF edges = {} THEN a
    ELSE LET t == CHOOSE x \in edges : TRUE
         IN  WithTransitions(SetTransitionOp(a, t[1], t[2], t[3]),
                             edges \ { t })

OrderInit ==
    /\ \E edges \in SUBSET OrderPlantEdges :
         sys0_ = WithTransitions(
                     DESystemNew(MaxOrderStates, 0, StatesOf(MaxOrderStates)),
                     edges)
    /\ sys1_ = DESystemNew(MaxSpecStates, 0, StatesOf(MaxSpecStates))
    /\ aNonContr = {}
    /\ proxy = NoProxy
    /\ rmtable = {}
    /\ f = << >>
    /\ pc = "build"
    /\ out_sys = NoSys
    /\ SysIdle

SpecOrder == OrderInit /\ [][SupNext]_vars

-----------------------------------------------------------------------------
(* Three systems P = sys0_, Q = sys1_, R = sys built by the constructor    *)
(* and transition assignments, and synchronize(P, Q) kept in out_sys.      *)

\* P, Q and R after construction.
SyncInit ==
    /\ \E n \in 1 .. MaxSyncStates :
         sys0_ = DESystemNew(n, 0, StatesOf(n))
    /\ \E n \in 1 .. MaxSyncStates :
         \E q0 \in StatesOf(n) :
           \E M \in SUBSET StatesOf(n) :
             sys1_ = DESystemNew(n, q0, M)
    /\ \E n \in 1 .. MaxSyncStates :
         sys = DESystemNew(n, 0, StatesOf(n))
    /\ aNonContr = {}
    /\ proxy = NoProxy
    /\ rmtable = {}
    /\ f = << >>
    /\ pc = "operands"
    /\ out_sys = NoSys
    /\ old_sys = NoSys
    /\ trimstates = {}
    /\ lastOp = "idle"
    /\ trimmed = FALSE
    /\ nset = 0

\* P(i, j) = e
SetTransitionP ==
    /\ pc = "operands"
    /\ Cardinality(sys0_.graph_) < MaxSyncTrans
    /\ \E i \in StatesOf(sys0_.states_number_) :
         \E j \in StatesOf(sys0_.states_number_) :
           \E e \in Events :
             sys0_' = SetTransitionOp(sys0_, i, j, e)
    /\ UNCHANGED << sys1_, sys, pc, out_sys >>
    /\ UNCHANGED << aNonContr, proxy, rmtable, f >>
    /\ UNCHANGED << old_sys, trimstates, lastOp, trimmed, nset >>

\* Q(i, j) = e
SetTransitionQ ==
    /\ pc = "operands"
    /\ Cardinality(sys1_.graph_) < MaxSyncTrans
    /\ \E i \in StatesOf(sys1_.states_number_) :
         \E j \in StatesOf(sys1_.states_number_) :
           \E e \in Events :
             sys1_' = SetTransitionOp(sys1_, i, j, e)
    /\ UNCHANGED << sys0_, sys, pc, out_sys >>
    /\ UNCHANGED << aNonContr, proxy, rmtable, f >>
    /\ UNCHANGED << old_sys, trimstates, lastOp, trimmed, nset >>

\* R(i, j) = e
SetTransitionR ==
    /\ pc = "operands"
    /\ Cardinality(sys.graph_) < MaxSyncTrans
    /\ \E i \in StatesOf(sys.states_number_) :
         \E j \in StatesOf(sys.states_number_) :
           \E e \in Events :
             sys' = SetTransitionOp(sys, i, j, e)
    /\ UNCHANGED << sys0_, sys1_, pc, out_sys >>
    /\ UNCHANGED << aNonContr, proxy, rmtable, f >>
    /\ UNCHANGED << old_sys, trimstates, lastOp, trimmed, nset >>

\* auto PQ = synchronize(P, Q)
SynchronizePQ ==
    /\ pc = "operands"
    /\ out_sys' = Synchronize(sys0_, sys1_)
    /\ pc' = "synchronized"
    /\ UNCHANGED << sys0_, sys1_, sys >>
    /\ UNCHANGED << aNonContr, proxy, rmtable, f >>
    /\ UNCHANGED << old_sys, trimstates, lastOp, trimmed, nset >>

SyncNext ==
    \/ SetTransitionP
    \/ SetTransitionQ
    \/ SetTransitionR
    \/ SynchronizePQ

SpecSync == SyncInit /\ [][SyncNext]_vars

-----------------------------------------------------------------------------
(* Properties of the supervisor synthesis.                                 *)

\* Phase 1 of the synthesis has ended.
Synthesized == pc \in { "synth", "converted" }

\* C1: after the synthesis, every kept state q and every uncontrollable event
\* e of the plant alphabet that the plant enables at q mod S_P has an
\* e-transition in the supervisor: the product successor exists and is kept.
C1_SupervisorControllable ==
    Synthesized =>
        \A q \in proxy.virtual_states_ :
          \A e \in aNonContr \cap sys0_.events_ :
            ContainsTrans(sys0_, q % proxy.n_states_sys0_, e) =>
              /\ trans_impl(proxy, sys0_, sys1_, q, e) # -1
              /\ trans_impl(proxy, sys0_, sys1_, q, e) \in proxy.virtual_states_

\* C10: the events_ of a concrete system returned by a public operation
\* (transition assignment, trim, conversion of a supervisor proxy) is the
\* union of the labels present in its graph_.
C10_EventsAreUsedEvents ==
    /\ pc # "idle" =>
         /\ sys0_.events_ = UsedEvents(sys0_.graph_)
         /\ sys1_.events_ = UsedEvents(sys1_.graph_)
    /\ pc = "converted" => out_sys.events_ = UsedEvents(out_sys.graph_)

-----------------------------------------------------------------------------
(* Properties of the transition functions of a concrete system.            *)

\* The destinations of the e-labelled out-edges of q in graph g.
Successors(g, q, e) == { t[2] : t \in { tt \in g : tt[1] = q /\ tt[3] = e } }

\* The sources of the e-labelled in-edges of q in graph g.
Predecessors(g, q, e) == { t[1] : t \in { tt \in g : tt[2] = q /\ tt[3] = e } }

\* C11: Trans(q, e) is -1 exactly when ContainsTrans(q, e) is false, and
\* otherwise it is the lowest state j with e in the label of (q, j); when q
\* has one e-successor only, it is that successor.
C11_TransIsLowestSuccessor ==
    Running =>
        \A q \in StatesOf(sys.states_number_) : \A e \in Events :
            /\ (Trans(sys, q, e) = -1) <=> ~ContainsTrans(sys, q, e)
            /\ ContainsTrans(sys, q, e) =>
                 /\ Trans(sys, q, e) \in Successors(sys.graph_, q, e)
                 /\ \A j \in Successors(sys.graph_, q, e) : Trans(sys, q, e) <= j
            /\ Cardinality(Successors(sys.graph_, q, e)) = 1 =>
                 Successors(sys.graph_, q, e) = { Trans(sys, q, e) }

\* C11 witness: after a trim, a state with two successors under one event
\* (Trans answers the lower one) and a pair with no transition.
C11_Witness ==
    /\ lastOp = "trim"
    /\ Cardinality(trimstates) < old_sys.states_number_
    /\ \E q \in StatesOf(sys.states_number_) : \E e \in Events :
         /\ Cardinality(Successors(sys.graph_, q, e)) = 2
         /\ Trans(sys, q, e) \in Successors(sys.graph_, q, e)
    /\ \E q \in StatesOf(sys.states_number_) : \E e \in Events :
         Trans(sys, q, e) = -1


\* C12: on a system reached by transition assignments and trims, after
\* AllocateInvertedGraph(), InvTrans(q, e) is the set of all states i with e
\* in the label of (i, q).
C12_InvTransIsPredecessors ==
    Running =>
        \A q \in StatesOf(sys.states_number_) : \A e \in Events :
            InvTrans(AllocateInvertedGraph(sys), q, e) =
                Predecessors(sys.graph_, q, e)


-----------------------------------------------------------------------------
(* Properties of the virtual transitions of the supervisor proxy.          *)

\* C13: for every kept product state q = y * S_P + x and every event e, the
\* proxy's transition follows the synchronous-product rules (no transition
\* outside E_P \cup E_Q; a shared event needs both operands and moves both;
\* an event of one operand needs that operand and moves it alone), and
\* containstrans_impl(q, e) is true exactly when trans_impl(q, e) is not -1.
C13_VirtualTransFollowsProductRules ==
    Synthesized =>
        \A q \in proxy.virtual_states_ : \A e \in Events :
          LET SP == sys0_.states_number_
              x == q % SP
              y == q \div SP
              inP == e \in sys0_.events_
              inQ == e \in sys1_.events_
              enP == ContainsTrans(sys0_, x, e)
              enQ == ContainsTrans(sys1_, y, e)
              t == trans_impl(proxy, sys0_, sys1_, q, e)
          IN  /\ (~inP /\ ~inQ) => t = -1
              /\ (inP /\ inQ) =>
                   t = IF enP /\ enQ
                         THEN Trans(sys1_, y, e) * SP + Trans(sys0_, x, e)
                         ELSE -1
              /\ (inP /\ ~inQ) =>
                   t = IF enP THEN y * SP + Trans(sys0_, x, e) ELSE -1
              /\ (~inP /\ inQ) =>
                   t = IF enQ THEN Trans(sys1_, y, e) * SP + x ELSE -1
              /\ containstrans_impl(proxy, sys0_, sys1_, q, e) <=> (t # -1)

\* C13 witness: the synthesis kept a state of a product with two plant
\* states where a shared event moves both operands, a state where an event of
\* one operand alone is taken, and a state where a shared event is disabled
\* although one operand enables it.
C13_Witness ==
    /\ Synthesized
    /\ sys0_.states_number_ > 1
    /\ \E q \in proxy.virtual_states_ :
         \E e \in sys0_.events_ \cap sys1_.events_ :
            /\ trans_impl(proxy, sys0_, sys1_, q, e) # -1
            /\ trans_impl(proxy, sys0_, sys1_, q, e) # q
    /\ \E q \in proxy.virtual_states_ :
         \E e \in Events \ (sys0_.events_ \cap sys1_.events_) :
            trans_impl(proxy, sys0_, sys1_, q, e) # -1
    /\ \E q \in proxy.virtual_states_ :
         \E e \in sys0_.events_ \cap sys1_.events_ :
            /\ trans_impl(proxy, sys0_, sys1_, q, e) = -1
            /\ \/ ContainsTrans(sys0_, q % sys0_.states_number_, e)
               \/ ContainsTrans(sys1_, q \div sys0_.states_number_, e)


\* A system with at most one successor per state and event.
Deterministic(a) ==
    \A q \in StatesOf(a.states_number_) : \A e \in Events :
        Cardinality(Successors(a.graph_, q, e)) <= 1

\* C14: with deterministic operands whose inverted graphs are allocated, for
\* all product states q, q' and every event e, q' is in invtrans_impl(q, e)
\* if and only if trans_impl(q', e) = q.
C14_InvTransIsInverseOfTrans ==
    (Synthesized /\ Deterministic(sys0_) /\ Deterministic(sys1_)) =>
        LET P == AllocateInvertedGraph(sys0_)
            Q == AllocateInvertedGraph(sys1_)
            states == StatesOf(sys0_.states_number_ * sys1_.states_number_)
        IN  \A q \in states : \A qq \in states : \A e \in Events :
                (qq \in invtrans_impl(proxy, P, Q, q, e)) <=>
                    (trans_impl(proxy, P, Q, qq, e) = q)


-----------------------------------------------------------------------------
(* Properties of the search of findRemovedStates_.  The product is         *)
(* described from the graphs of the operands, independently of the proxy.  *)

\* The e-successors of product state q = y * S_P + x in the synchronous
\* product of aP and aE.
ProductSuccessors(aP, aE, q, e) ==
    LET SP == aP.states_number_
        x == q % SP
        y == q \div SP
        inP == e \in aP.events_
        inQ == e \in aE.events_
    IN  IF inP /\ inQ
          THEN { yy * SP + xx : xx \in Successors(aP.graph_, x, e),
                                yy \in Successors(aE.graph_, y, e) }
        ELSE IF inP THEN { y * SP + xx : xx \in Successors(aP.graph_, x, e) }
        ELSE IF inQ THEN { yy * SP + x : yy \in Successors(aE.graph_, y, e) }
        ELSE {}

\* The product states.
ProductStates(aP, aE) == StatesOf(aP.states_number_ * aE.states_number_)

\* q is locally bad: the plant enables an event of U \cap E_P at q mod S_P
\* that the product disables at q.
LocallyBad(aP, aE, U, q) ==
    \E e \in U \cap aP.events_ :
        /\ Successors(aP.graph_, q % aP.states_number_, e) # {}
        /\ ProductSuccessors(aP, aE, q, e) = {}

RECURSIVE UncontrollablyLeadingTo(_, _, _, _)
\* The product states with a path of U-transitions into the set X.
UncontrollablyLeadingTo(aP, aE, U, X) ==
    LET nxt == X \cup { q \in ProductStates(aP, aE) :
                          \E e \in U : ProductSuccessors(aP, aE, q, e) \cap X # {} }
    IN  IF nxt = X THEN X ELSE UncontrollablyLeadingTo(aP, aE, U, nxt)

\* The locally bad states of the product.
LocallyBadStates(aP, aE, U) ==
    { q \in ProductStates(aP, aE) : LocallyBad(aP, aE, U, q) }

\* C15: every state in rmtable during the search is locally bad or has a
\* path of uncontrollable-event transitions of the product to a locally bad
\* state; nothing else is removed.
C15_OnlyDoomedStatesRemoved ==
    pc = "phase1" =>
        rmtable \subseteq
            UncontrollablyLeadingTo(sys0_, sys1_, aNonContr,
                LocallyBadStates(sys0_, sys1_, aNonContr))

\* C15 witness: the search removed a locally bad state and a state that is
\* not locally bad itself, while another state is kept.
C15_Witness ==
    /\ pc = "phase1"
    /\ \E q \in rmtable : LocallyBad(sys0_, sys1_, aNonContr, q)
    /\ \E q \in rmtable : ~LocallyBad(sys0_, sys1_, aNonContr, q)
    /\ \E q \in ProductStates(sys0_, sys1_) : q \notin rmtable


\* The marked product states: both components marked.
ProductMarked(aP, aE) ==
    { y * aP.states_number_ + x : x \in aP.marked_states_,
                                  y \in aE.marked_states_ }

RECURSIVE CoreachableWithin(_, _, _, _)
\* The states of W with a path of product transitions, through states of W
\* only, into X (X a subset of W).
CoreachableWithin(aP, aE, W, X) ==
    LET nxt == X \cup { q \in W : \E e \in Events :
                          ProductSuccessors(aP, aE, q, e) \cap X # {} }
    IN  IF nxt = X THEN X ELSE CoreachableWithin(aP, aE, W, nxt)

RECURSIVE ReachableWithin(_, _, _, _)
\* The states of W reached from X (a subset of W) by product transitions
\* through states of W only.
ReachableWithin(aP, aE, W, X) ==
    LET nxt == X \cup { q \in W : \E p \in X : \E e \in Events :
                          q \in ProductSuccessors(aP, aE, p, e) }
    IN  IF nxt = X THEN X ELSE ReachableWithin(aP, aE, W, nxt)

\* C16: in the synthesized supervisor, every kept state reaches a marked
\* product state of virtual_states_ through kept states only.
C16_SupervisorNonBlocking ==
    Synthesized =>
        LET V == proxy.virtual_states_
        IN  V = CoreachableWithin(sys0_, sys1_, V,
                                  V \cap ProductMarked(sys0_, sys1_))


\* The initial state of the product.
ProductInit(aP, aE) == aE.init_state_ * aP.states_number_ + aP.init_state_

\* C17: at the end of the synthesis every kept state is reached from the
\* product initial state through kept states only; in particular the
\* initial state is kept whenever any state is.
C17_SupervisorAccessible ==
    Synthesized =>
        LET V == proxy.virtual_states_
        IN  /\ V # {} => ProductInit(sys0_, sys1_) \in V
            /\ V = ReachableWithin(sys0_, sys1_, V,
                                   V \cap { ProductInit(sys0_, sys1_) })


-----------------------------------------------------------------------------
(* Properties of the conversion of the supervisor proxy.                   *)

\* rank: the ascending-order renumbering of V onto [0, |V|).
Rank(V, q) == Cardinality({ v \in V : v < q })

\* The product transition of q under e: the successor built from the lowest
\* successors of the components, or -1.
ProductTrans(aP, aE, q, e) ==
    LET succ == ProductSuccessors(aP, aE, q, e)
    IN  IF succ = {} THEN -1
        ELSE CHOOSE s \in succ : \A t \in succ : s <= t

\* C18: the converted supervisor has |V| states, holds e on the edge
\* (rank(q), rank(q')) exactly when q and q' are kept and the product
\* transition of q under e is q', has the ranks of the kept marked product
\* states as marked states and the rank of the product initial state as
\* initial state.
C18_ProjectionIsRankedRestriction ==
    pc = "converted" =>
        LET V == proxy.virtual_states_
            n == Cardinality(V)
        IN  /\ out_sys.states_number_ = n
            /\ out_sys.graph_ =
                 UNION { { << Rank(V, q),
                              Rank(V, ProductTrans(sys0_, sys1_, q, e)), e >> :
                             e \in { ev \in Events :
                                       ProductTrans(sys0_, sys1_, q, ev) \in V } } :
                         q \in V }
            /\ \A q \in V : \A qq \in V : \A e \in Events :
                 (e \in Label(out_sys.graph_, Rank(V, q), Rank(V, qq))) <=>
                     (ProductTrans(sys0_, sys1_, q, e) = qq)
            /\ out_sys.marked_states_ =
                 { Rank(V, q) : q \in V \cap ProductMarked(sys0_, sys1_) }
            /\ ProductInit(sys0_, sys1_) \in V =>
                 out_sys.init_state_ = Rank(V, ProductInit(sys0_, sys1_))

\* C18 witness: a converted supervisor whose kept states are not an initial
\* segment of the product states, with an edge between two different states
\* and a marked state.
C18_Witness ==
    /\ pc = "converted"
    /\ \E q \in proxy.virtual_states_ : Rank(proxy.virtual_states_, q) # q
    /\ \E t \in out_sys.graph_ : t[1] # t[2]
    /\ out_sys.marked_states_ # {}
    /\ ProductInit(sys0_, sys1_) \in proxy.virtual_states_


\* C19: the converted supervisor satisfies the invariants of a concrete
\* system: bit_graph_ is the transposed adjacency plus the identity,
\* states_events_ and inv_states_events_ have one entry per state holding
\* the labels of its out-edges and in-edges, and AccessiblePart() agrees
\* with the graph.
C19_ConvertedSystemInvariants ==
    pc = "converted" =>
        LET n == out_sys.states_number_
        IN  /\ out_sys.bit_graph_ =
                 { << t[2], t[1] >> : t \in out_sys.graph_ } \cup Identity(n)
            /\ DOMAIN out_sys.states_events_ = StatesOf(n)
            /\ DOMAIN out_sys.inv_states_events_ = StatesOf(n)
            /\ \A q \in StatesOf(n) :
                 /\ out_sys.states_events_[q] = OutEvents(out_sys.graph_, q)
                 /\ out_sys.inv_states_events_[q] = InEvents(out_sys.graph_, q)
            /\ InContract(out_sys) =>
                 AccessiblePart(out_sys) =
                   ForwardClosure(out_sys.graph_, { out_sys.init_state_ })


-----------------------------------------------------------------------------
(* Scenarios of the supervisor synthesis.                                  *)

\* The plant of Scenario D: one state whose only transition is a self-loop
\* on the uncontrollable event u.
ScenarioDPlant(u) ==
    /\ u \in aNonContr
    /\ sys0_.states_number_ = 1
    /\ sys0_.graph_ = { << 0, 0, u >> }

\* The specification of Scenario D: one state, no transition.
ScenarioDSpec == sys1_.states_number_ = 1 /\ sys1_.graph_ = {}

\* C20 as claimed: in Scenario D no state survives the search.
C20_ScenarioDEmptySupervisor ==
    Synthesized =>
        \A u \in Events :
            (ScenarioDPlant(u) /\ ScenarioDSpec) => proxy.virtual_states_ = {}

\* C20 amended: in Scenario D the event u belongs to the plant alone, the
\* product enables it and the one product state survives; with the plant of
\* Scenario D no state survives when u is an event of the specification that
\* its initial state does not enable.
C20_ScenarioDSupervisor ==
    Synthesized =>
        \A u \in Events :
            ScenarioDPlant(u) =>
                /\ ScenarioDSpec => proxy.virtual_states_ = { 0 }
                /\ ( /\ u \in sys1_.events_
                     /\ u \notin OutEvents(sys1_.graph_, sys1_.init_state_) ) =>
                       proxy.virtual_states_ = {}

\* C20 witness: the synthesis of Scenario D has ended and state 0 is kept.
C20_Witness ==
    /\ Synthesized
    /\ \E u \in Events : ScenarioDPlant(u) /\ ScenarioDSpec
    /\ proxy.virtual_states_ = { 0 }


\* Scenario E: the specification is the plant.
ScenarioE == sys1_ = sys0_

RECURSIVE TransClosure(_, _)
\* The states reached from X by the transition function Trans of system a.
TransClosure(a, X) ==
    LET nxt == X \cup ({ Trans(a, q, e) : q \in X, e \in a.events_ } \ { -1 })
    IN  IF nxt = X THEN X ELSE TransClosure(a, nxt)

\* C21 as claimed: in Scenario E exactly S_P states survive.
C21_ScenarioEAllStatesSurvive ==
    (Synthesized /\ ScenarioE) =>
        Cardinality(proxy.virtual_states_) = sys0_.states_number_

\* C21 amended: in Scenario E the kept states are the pairs (x, x) of the
\* states x the plant reaches from its initial state by its transition
\* function; for a deterministic plant these are its accessible states, the
\* converted supervisor is the plant restricted to them under the ascending
\* renumbering, and |V| = S_P exactly when every plant state is accessible.
C21_ScenarioEAccessiblePart ==
    (Synthesized /\ ScenarioE) =>
        LET SP == sys0_.states_number_
            V == proxy.virtual_states_
            A == ForwardClosure(sys0_.graph_, { sys0_.init_state_ })
        IN  /\ V = { x * SP + x : x \in TransClosure(sys0_, { sys0_.init_state_ }) }
            /\ Deterministic(sys0_) =>
                 /\ V = { x * SP + x : x \in A }
                 /\ (Cardinality(V) = SP) <=> (A = StatesOf(SP))
                 /\ pc = "converted" =>
                      /\ out_sys.states_number_ = Cardinality(A)
                      /\ out_sys.graph_ =
                           { << Sigma(A, t[1]), Sigma(A, t[2]), t[3] >> :
                               t \in { tt \in sys0_.graph_ : tt[1] \in A } }
                      /\ out_sys.marked_states_ =
                           { Sigma(A, m) : m \in sys0_.marked_states_ \cap A }
                      /\ out_sys.init_state_ = Sigma(A, sys0_.init_state_)

\* C21 witness: Scenario E converted, for a deterministic two-state plant
\* with both states accessible and two transitions.
C21_Witness ==
    /\ pc = "converted"
    /\ ScenarioE
    /\ Deterministic(sys0_)
    /\ sys0_.states_number_ = 2
    /\ Cardinality(sys0_.graph_) = 2
    /\ proxy.virtual_states_ = { 0, 3 }


-----------------------------------------------------------------------------
(* Algebraic properties of synchronize.                                    *)

Synchronized == pc = "synchronized"

\* The virtual state whose rank in V is r.
Unrank(V, r) == CHOOSE v \in V : Rank(V, v) = r

\* The encoding of (y, x) in the product of (aSys1, aSys0), for the
\* encoding v of (x, y) in the product of (aSys0, aSys1).
SwapPair(aSys0, aSys1, v) ==
    (v % aSys0.states_number_) * aSys1.states_number_ +
      (v \div aSys0.states_number_)

\* The renaming of the states of synchronize(aSys0, aSys1) into the states
\* of synchronize(aSys1, aSys0) that swaps the pairs; -1 where the swapped
\* pair is no state of the second.
SwapMap(aSys0, aSys1) ==
    LET V01 == ReachableProduct(aSys0, aSys1)
        V10 == ReachableProduct(aSys1, aSys0)
    IN  [r \in StatesOf(Cardinality(V01)) |->
           LET w == SwapPair(aSys0, aSys1, Unrank(V01, r))
           IN  IF w \in V10 THEN Rank(V10, w) ELSE -1]

\* h is an isomorphism of a onto b: a bijection of the states that carries
\* the initial state, the marked states and the labelled transitions of a
\* onto those of b.
IsomorphicUnder(a, b, h) ==
    /\ DOMAIN h = StatesOf(a.states_number_)
    /\ a.states_number_ = b.states_number_
    /\ { h[r] : r \in DOMAIN h } = StatesOf(b.states_number_)
    /\ h[a.init_state_] = b.init_state_
    /\ { h[m] : m \in a.marked_states_ } = b.marked_states_
    /\ { << h[t[1]], h[t[2]], t[3] >> : t \in a.graph_ } = b.graph_

\* C22: synchronize(P, Q) and synchronize(Q, P) are isomorphic under the
\* renaming that sends the state encoding (x, y) to the state encoding
\* (y, x): same number of states, initial state onto initial state, marked
\* states onto marked states, labelled transitions onto labelled
\* transitions.
C22_SynchronizeCommutative ==
    Synchronized =>
      IsomorphicUnder(out_sys, Synchronize(sys1_, sys0_),
                      SwapMap(sys0_, sys1_))

\* A product of two 2-state systems with a private event of each side, three
\* reachable states, and a renaming that is not the identity.
C22_Witness ==
    /\ Synchronized
    /\ sys0_.states_number_ = 2
    /\ sys1_.states_number_ = 2
    /\ sys0_.events_ \ sys1_.events_ # {}
    /\ sys1_.events_ \ sys0_.events_ # {}
    /\ out_sys.states_number_ >= 3
    /\ \E r \in StatesOf(out_sys.states_number_) :
         SwapMap(sys0_, sys1_)[r] # r


\* The renaming of the states of synchronize(synchronize(aP, aQ), aR) into
\* the states of synchronize(aP, synchronize(aQ, aR)) that sends the
\* encoding of ((x, y), z) to the encoding of (x, (y, z)); -1 where the
\* regrouped triple is no state of the second.
AssocMap(aP, aQ, aR) ==
    LET VPQ    == ReachableProduct(aP, aQ)
        PQ     == Synchronize(aP, aQ)
        VPQ_R  == ReachableProduct(PQ, aR)
        VQR    == ReachableProduct(aQ, aR)
        QR     == Synchronize(aQ, aR)
        VP_QR  == ReachableProduct(aP, QR)
    IN  [r \in StatesOf(Cardinality(VPQ_R)) |->
           LET w  == Unrank(VPQ_R, r)
               xy == Unrank(VPQ, w % PQ.states_number_)
               z  == w \div PQ.states_number_
               x  == xy % aP.states_number_
               y  == xy \div aP.states_number_
               yz == z * aQ.states_number_ + y
               u  == Rank(VQR, yz) * aP.states_number_ + x
           IN  IF yz \in VQR /\ u \in VP_QR THEN Rank(VP_QR, u) ELSE -1]

\* C23: synchronize(synchronize(P, Q), R) and synchronize(P, synchronize(Q,
\* R)) are isomorphic under the renaming that regroups ((x, y), z) as
\* (x, (y, z)), each intermediate product carrying the alphabet E_P \cup E_Q
\* of its operands; the two results carry the same alphabet.
C23_SynchronizeAssociative ==
    Synchronized =>
      LET left  == Synchronize(out_sys, sys)
          right == Synchronize(sys0_, Synchronize(sys1_, sys))
      IN  /\ out_sys.events_ = sys0_.events_ \cup sys1_.events_
          /\ left.events_ = right.events_
          /\ IsomorphicUnder(left, right, AssocMap(sys0_, sys1_, sys))

\* Three 2-state systems, each with a transition, an event shared by the
\* first two and an event the third has alone, and at least four reachable
\* states of the triple product.
C23_Witness ==
    /\ Synchronized
    /\ sys0_.states_number_ = 2
    /\ sys1_.states_number_ = 2
    /\ sys.states_number_ = 2
    /\ sys0_.events_ \cap sys1_.events_ # {}
    /\ sys.events_ \ (sys0_.events_ \cup sys1_.events_) # {}
    /\ Synchronize(out_sys, sys).states_number_ >= 4
    /\ Cardinality(Synchronize(out_sys, sys).graph_) >= 4


-----------------------------------------------------------------------------
(* Properties of the inverse lookup without an inverted graph.             *)

\* C24: on a system whose inverted graph is not allocated, never allocated
\* or cleared since, InvTrans(q, e) has no normal return for any state q and
\* any event e.
C24_InvTransWithoutInvertedGraphFaults ==
    Running =>
      \A a \in { sys, ClearInvertedGraph(AllocateInvertedGraph(sys)) } :
        \A q \in StatesOf(a.states_number_) : \A e \in Events :
          ~a.inv_graph_.allocated =>
            \A o \in InvTransOutcomes(a, q, e) : o.kind # "return"


-----------------------------------------------------------------------------
(* Properties of the scope of the inverted graphs in the synthesis.        *)

\* The fields of a other than the inverted graph.
WithoutInvertedGraph(a) == [ a EXCEPT !.inv_graph_ = NullInvGraph ]

\* inv_graph_ of a is allocated and is the transpose of graph_.
InvertedGraphAllocated(a) == a.inv_graph_ = AllocateInvertedGraph(a).inv_graph_

\* C25: all through phase 1, from before its first pass (hence before its
\* first inverse query) to its end, the inverted graphs of plant and spec
\* are allocated; once the synthesis has returned both are cleared; and no
\* step from the start of the synthesis on changes states_number_,
\* init_state_, marked_states_, graph_, bit_graph_, states_events_,
\* inv_states_events_ or events_ of plant or spec.
C25_InvertedGraphsScopedOperandsKept ==
    /\ [](pc = "phase1" =>
            InvertedGraphAllocated(sys0_) /\ InvertedGraphAllocated(sys1_))
    /\ [](Synthesized =>
            sys0_.inv_graph_ = NullInvGraph /\ sys1_.inv_graph_ = NullInvGraph)
    /\ [][pc' # "build" =>
            /\ WithoutInvertedGraph(sys0_') = WithoutInvertedGraph(sys0_)
            /\ WithoutInvertedGraph(sys1_') = WithoutInvertedGraph(sys1_)]_vars

\* The synthesis has returned after a phase 1 that removed the initial
\* state of the product through inverse queries on operands with
\* transitions.
C25_Witness ==
    /\ pc = "synth"
    /\ sys0_.graph_ # {}
    /\ sys1_.graph_ # {}
    /\ ProductInit(sys0_, sys1_) \notin proxy.virtual_states_
    /\ sys0_.inv_graph_ = NullInvGraph
    /\ sys1_.inv_graph_ = NullInvGraph


-----------------------------------------------------------------------------
(* Properties of the loop of the searches.                                 *)

\* y after the loop of the searches was given room for k iterations.
KernelIterate(m, x, k) == BfsLoop(m, x, [c \in DOMAIN x |-> {}], 0, 0, k)

\* Every row lit in a column of x is lit in the same column of y.
LitIn(x, y) == \A c \in DOMAIN x : x[c] \subseteq y[c]

\* The properties of the loop run on matrix m from the seed x, n the number
\* of states.
KernelMonotone(m, x, n) ==
    /\ LitIn(x, Product(m, x))
    /\ \A k \in 0 .. n :
         LET X == KernelIterate(m, x, k)
             Y == Product(m, X)
         IN  /\ LitIn(X, Y)
             /\ NonZeros(X) <= NonZeros(Y)
             /\ NonZeros(X) = NonZeros(Y) => Y = X
             /\ k < n => NonZeros(X) <= NonZeros(KernelIterate(m, x, k + 1))
    /\ LET Z == KernelIterate(m, x, n)
       IN  /\ Product(m, Z) = Z
           /\ LitIn(x, Z)

\* C26: on a system whose boolean matrix contains the identity, in the
\* loops of the forward search (seeded at init_state_) and of the backward
\* search (seeded at the marked states, on the transposed matrix) every row
\* lit in X is lit in the product, so the count of nonzeros never decreases;
\* a product with the count of its operand is equal to it; and the loop
\* bounded by states_number_ iterations ends on a fixed point that contains
\* the seed.
C26_KernelMonotoneToFixedPoint ==
    (Running /\ InContract(sys) /\ Identity(sys.states_number_) \subseteq sys.bit_graph_) =>
        /\ KernelMonotone(sys.bit_graph_, << { sys.init_state_ } >>,
                          sys.states_number_)
        /\ KernelMonotone(Transpose(sys.bit_graph_), MarkedColumns(sys),
                          sys.states_number_)

\* Three states in a chain from the initial state, the last one marked
\* alone: both searches need every product up to the third to see that the
\* count stopped growing.
C26_Witness ==
    /\ Running /\ InContract(sys)
    /\ Identity(sys.states_number_) \subseteq sys.bit_graph_
    /\ sys.states_number_ = 3
    /\ Cardinality(sys.marked_states_) = 1
    /\ AccessiblePart(sys) = { 0, 1, 2 }
    /\ CoaccessiblePart(sys) = { 0, 1, 2 }
    /\ LitRows(KernelIterate(sys.bit_graph_, << { sys.init_state_ } >>, 1))
         # AccessiblePart(sys)
    /\ LitRows(KernelIterate(Transpose(sys.bit_graph_), MarkedColumns(sys), 1))
         # CoaccessiblePart(sys)


-----------------------------------------------------------------------------
(* Properties of the sets kept by the search of findRemovedStates_.        *)

\* No product state outside R has a transition on an event of U into R.
ClosedUnderUncontrollablePredecessors(aP, aE, U, R) ==
    \A q \in ProductStates(aP, aE) \ R : \A e \in U :
        ProductSuccessors(aP, aE, q, e) \cap R = {}

\* C27: in every state of phase 1 virtual_states_ and rmtable are disjoint;
\* no step of phase 1 takes a state out of rmtable (so none goes back to
\* virtual_states_); and rmtable is closed under the predecessors along the
\* uncontrollable events of the plant: no product state outside rmtable has
\* a transition on such an event into rmtable.
C27_RemovedDisjointGrowingClosed ==
    /\ [](pc = "phase1" => proxy.virtual_states_ \cap rmtable = {})
    /\ [][(pc = "phase1" /\ pc' = "phase1") => rmtable \subseteq rmtable']_vars
    /\ [](pc = "phase1" =>
            ClosedUnderUncontrollablePredecessors(
                sys0_, sys1_, PNonContrBit(sys0_, aNonContr), rmtable))


-----------------------------------------------------------------------------
(* Termination of the search of findRemovedStates_.                        *)

\* The product states the search has not yet put into virtual_states_ or
\* rmtable.
Unsettled == ProductStates(sys0_, sys1_) \ (proxy.virtual_states_ \cup rmtable)

\* C28: phase 1 terminates, and settles each state once.  Every pass of the
\* loop either settles the popped state (the number of product states in
\* neither virtual_states_ nor rmtable goes down) or only pops (the sets stay
\* and f gets shorter), so the passes are bounded and f runs empty; a state
\* that leaves virtual_states_ goes to rmtable, rmtable never loses a state
\* and stays disjoint from virtual_states_, so a state enters each set at
\* most once; and a popped state already in one of the sets is not expanded:
\* the pass changes neither set and pushes nothing.
C28_Phase1TerminatesSettlingOnce ==
    /\ (pc = "phase1") ~> (pc = "phase1" /\ f = << >>)
    /\ [][(pc = "phase1" /\ pc' = "phase1") =>
            LET q == f[Len(f)]
                V == proxy.virtual_states_
            IN  /\ f # << >>
                /\ \/ Cardinality(Unsettled') < Cardinality(Unsettled)
                   \/ /\ Unsettled' = Unsettled
                      /\ Len(f') < Len(f)
                /\ (V \ V') \subseteq rmtable'
                /\ rmtable \subseteq rmtable'
                /\ V' \cap rmtable' = {}
                /\ (V' \ V) \subseteq { q }
                /\ q \in (V \cup rmtable) =>
                     /\ V' = V
                     /\ rmtable' = rmtable
                     /\ f' = SubSeq(f, 1, Len(f) - 1)
                /\ q \notin (V \cup rmtable) => q \in (V' \cup rmtable')]_vars

\* Phase 1 has run f empty with at least three states settled, some kept
\* and some removed.
C28_Witness ==
    /\ pc = "phase1"
    /\ f = << >>
    /\ rmtable # {}
    /\ proxy.virtual_states_ # {}
    /\ Cardinality(proxy.virtual_states_ \cup rmtable) >= 3


-----------------------------------------------------------------------------
(* Properties of trim() of the supervisor proxy.                           *)

\* The proxy after allocateInvertedGraph(); trim(); on the synthesized
\* supervisor.
TrimmedProxy ==
    trim(proxy, AllocateInvertedGraph(sys0_), AllocateInvertedGraph(sys1_))

\* C29: trim() of the synthesized supervisor leaves in virtual_states_
\* exactly the states of the previous virtual_states_ from which a marked
\* product state of virtual_states_ is reached through states of
\* virtual_states_; the result is a subset of the previous set, so it holds
\* no marked product state from outside it.
C29_TrimKeepsCoreachableOfKeptMarked ==
    pc = "synth" =>
        LET V == proxy.virtual_states_
            T == TrimmedProxy.virtual_states_
        IN  /\ T = CoreachableWithin(sys0_, sys1_, V,
                                     V \cap ProductMarked(sys0_, sys1_))
            /\ T \subseteq V
            /\ (T \cap ProductMarked(sys0_, sys1_)) \subseteq V


-----------------------------------------------------------------------------
(* Properties of the order of the search of findRemovedStates_.            *)

RECURSIVE findRemovedStatesLoop(_, _, _, _, _, _, _)
\* while (!f.empty()) of findRemovedStates_ run to its end from the sets V
\* and rm and the stack stack: the final virtual_states_.
findRemovedStatesLoop(vs, aP, aE, aU, V, rm, stack) ==
    IF stack = << >> THEN V
    ELSE LET q == stack[Len(stack)]
             popped == SubSeq(stack, 1, Len(stack) - 1)
         IN  IF q \notin rm /\ q \notin V
               THEN IF BadState(vs, aP, aE, aU, q)
                      THEN LET r == RemoveBadStates(vs, aP, aE, V, q,
                                                    NonContrBit(aP, vs, aU), rm)
                           IN  findRemovedStatesLoop(vs, aP, aE, aU,
                                                     r.virtual_states_,
                                                     r.rmtable, popped)
                      ELSE findRemovedStatesLoop(
                               vs, aP, aE, aU, V \cup { q }, rm,
                               PushSuccessors(vs, aP, aE, q, 0, rm,
                                              V \cup { q }, popped))
               ELSE findRemovedStatesLoop(vs, aP, aE, aU, V, rm, popped)

\* virtual_states_ after findRemovedStates_(aP, aE, aU).
findRemovedStates_(aP, aE, aU) ==
    LET vs == SyncSysProxyNew(aP, aE)
    IN  findRemovedStatesLoop(vs, AllocateInvertedGraph(aP),
                              AllocateInvertedGraph(aE), aU, {}, {},
                              << vs.init_state_ >>)

\* The renumberings of the events.
EventRenumberings ==
    { pi \in [Events -> Events] : { pi[e] : e \in Events } = Events }

\* The system a with its events renumbered by pi.
Renumbered(a, pi) ==
    [ a EXCEPT
        !.graph_ = { << t[1], t[2], pi[t[3]] >> : t \in @ },
        !.events_ = { pi[e] : e \in @ },
        !.states_events_ =
            [q \in DOMAIN @ |-> { pi[e] : e \in @[q] }],
        !.inv_states_events_ =
            [q \in DOMAIN @ |-> { pi[e] : e \in @[q] }],
        !.inv_graph_ =
            [ allocated |-> @.allocated,
              graph |-> { << t[1], t[2], pi[t[3]] >> : t \in @.graph } ] ]

\* C30: the set virtual_states_ left by phase 1 is the same when the events
\* of plant, spec and uncontrollable set are renumbered alike, which makes
\* the search push the successors of each state in another order.
C30_SurvivorsIndependentOfOrder ==
    pc = "synth" =>
        /\ proxy.virtual_states_ = findRemovedStates_(sys0_, sys1_, aNonContr)
        /\ \A pi \in EventRenumberings :
             findRemovedStates_(Renumbered(sys0_, pi), Renumbered(sys1_, pi),
                                { pi[e] : e \in aNonContr })
               = proxy.virtual_states_


=============================================================================
